---- MODULE Spec2Model ----
(***************************************************************************)
(* Duplicate Content Checker (src/app.py): a Streamlit script that fetches *)
(* pages, scores them pairwise with TF-IDF cosine similarity and keeps the *)
(* long matching blocks of every pair as evidence.                         *)
(*                                                                         *)
(* A text is a sequence of one-character strings.  Offsets of matching     *)
(* blocks are 0-based, as in Python: element k of a text t is t[k + 1].    *)
(***************************************************************************)
EXTENDS Integers, Sequences, FiniteSets, TLC

Range(s) == {s[k] : k \in 1..Len(s)}

\* the sequence f as an explicit tuple: its elements are evaluated once, not
\* at every use
AsTuple(f) == f \o <<>>

\* the function f as an explicit function, likewise
AsTable(f) == f @@ <<>>

\* s[lo:hi] of Python (0-based, hi exclusive)
Slice(s, lo, hi) == SubSeq(s, lo + 1, hi)

\* the concatenation of the sequences of a sequence
RECURSIVE Flatten(_)
Flatten(ss) == IF ss = <<>> THEN <<>> ELSE ss[1] \o Flatten(Tail(ss))

(***************************************************************************)
(* Characters and the string methods the script uses                       *)
(***************************************************************************)
UpperCase == <<"A", "B", "C", "D", "E", "F", "G", "H", "I", "J", "K", "L", "M",
               "N", "O", "P", "Q", "R", "S", "T", "U", "V", "W", "X", "Y", "Z">>
LowerCase == <<"a", "b", "c", "d", "e", "f", "g", "h", "i", "j", "k", "l", "m",
               "n", "o", "p", "q", "r", "s", "t", "u", "v", "w", "x", "y", "z">>
Digit == <<"0", "1", "2", "3", "4", "5", "6", "7", "8", "9">>

\* \s of the regular expressions, and what str.strip() and str.split() take
\* for white space
Whitespace == {" ", "\n", "\t"}

\* \w of the regular expressions, on lowercased text
WordChar == Range(LowerCase) \cup Range(Digit) \cup {"_"}

\* str.lower()
lower(s) ==
    AsTuple([k \in 1..Len(s) |->
                IF \E n \in 1..26 : UpperCase[n] = s[k]
                THEN LowerCase[CHOOSE n \in 1..26 : UpperCase[n] = s[k]]
                ELSE s[k]])

\* str.strip()
strip(s) ==
    LET ink == {k \in 1..Len(s) : s[k] \notin Whitespace}
    IN  IF ink = {} THEN <<>>
        ELSE SubSeq(s, CHOOSE k \in ink : \A k2 \in ink : k <= k2,
                       CHOOSE k \in ink : \A k2 \in ink : k2 <= k)

\* the maximal runs of s made of the characters of `class`, in order
Runs(s, class) ==
    LET n == Len(s)
        starts == SelectSeq([k \in 1..n |-> k],
                     LAMBDA k : /\ s[k] \in class
                                /\ (k = 1 \/ s[k - 1] \notin class))
        stop(k) == CHOOSE e \in k..n :
                      /\ e = n \/ s[e + 1] \notin class
                      /\ \A m \in k..e : s[m] \in class
    IN  AsTuple([r \in 1..Len(starts) |-> SubSeq(s, starts[r], stop(starts[r]))])

\* str.split(): the words between runs of white space
split(s) == Runs(s, Range(s) \ Whitespace)

\* re.sub(r'\s+', ' ', s): every run of white space becomes one space
collapse_spaces(s) ==
    LET kept == SelectSeq([k \in 1..Len(s) |-> k],
                   LAMBDA k : \/ s[k] \notin Whitespace
                              \/ k = 1
                              \/ s[k - 1] \notin Whitespace)
    IN  AsTuple([r \in 1..Len(kept) |->
                    IF s[kept[r]] \in Whitespace THEN " " ELSE s[kept[r]]])

\* sep.join(parts)
RECURSIVE join(_, _)
join(sep, parts) ==
    IF parts = <<>> THEN <<>>
    ELSE IF Len(parts) = 1 THEN parts[1]
    ELSE parts[1] \o sep \o join(sep, Tail(parts))

\* str(n) of a natural number
RECURSIVE str(_)
str(n) == IF n < 10 THEN <<Digit[n + 1]>>
          ELSE str(n \div 10) \o <<Digit[(n % 10) + 1]>>

(***************************************************************************)
(* difflib.SequenceMatcher(None, a, b), as line 116 constructs it:         *)
(* isjunk is None and autojunk is left at its default, True.               *)
(***************************************************************************)

\* elements of b that isjunk marks: none, isjunk is None
bjunk(b) == {}

\* autojunk: in a b of 200 or more elements, those that occur more often
\* than 1% of its length plus one are "popular" and start no match
bpopular(b) ==
    IF Len(b) >= 200
    THEN {c \in Range(b) :
            Cardinality({k \in 1..Len(b) : b[k] = c}) > (Len(b) \div 100) + 1}
    ELSE {}

\* b2j of __chain_b: b[j] can start or continue a match unless it is junk
\* or popular
in_b2j(b, j) == b[j + 1] \notin (bjunk(b) \cup bpopular(b))

\* the value the double loop of find_longest_match leaves in newj2len[j] at
\* row i: the length of the longest run of b2j elements that ends with a[i]
\* and b[j] inside a[alo:] and b[blo:]; 0 when a[i] and b[j] differ
j2len(a, b, alo, blo, i, j) ==
    LET lim == IF i - alo <= j - blo THEN i - alo + 1 ELSE j - blo + 1
        same(t) == a[i - t + 1] = b[j - t + 1] /\ in_b2j(b, j - t)
    IN  IF ~same(0) THEN 0
        ELSE CHOOSE k \in 1..lim :
                /\ k = lim \/ ~same(k)
                /\ \A t \in 1..(k - 1) : same(t)

\* the places <<i, j>> of a[alo:ahi] and b[blo:bhi] where a run of equal b2j
\* elements ends: a[i] = b[j], and the run cannot be continued
run_ends(a, b, alo, ahi, blo, bhi) ==
    {e \in (alo..(ahi - 1)) \X (blo..(bhi - 1)) :
        /\ a[e[1] + 1] = b[e[2] + 1]
        /\ in_b2j(b, e[2])
        /\ \/ e[1] + 1 = ahi
           \/ e[2] + 1 = bhi
           \/ a[e[1] + 2] # b[e[2] + 2]
           \/ ~in_b2j(b, e[2] + 1)}

\* <<besti, bestj, bestsize>> for the run lengths len, a function on the
\* run ends: the longest run, the one that ends first in a, then first in b
best_run(len, alo, blo) ==
    LET sizes == {len[e] : e \in DOMAIN len}
        bestsize == CHOOSE k \in sizes : \A k2 \in sizes : k2 <= k
        longest == {e \in DOMAIN len : len[e] = bestsize}
        first == CHOOSE x \in longest : \A y \in longest \ {x} :
                    \/ x[1] < y[1]
                    \/ x[1] = y[1] /\ x[2] < y[2]
    IN  IF DOMAIN len = {} THEN <<alo, blo, 0>>
        ELSE <<first[1] - bestsize + 1, first[2] - bestsize + 1, bestsize>>

\* the double loop of find_longest_match: i ascends, then j, and only a
\* strictly longer match replaces <<besti, bestj, bestsize>>.  A run is
\* longest only where it cannot be continued, which is where it is looked
\* for.
longest_run(a, b, alo, ahi, blo, bhi) ==
    best_run(AsTable([e \in run_ends(a, b, alo, ahi, blo, bhi) |->
                         j2len(a, b, alo, blo, e[1], e[2])]),
             alo, blo)

\* the "while besti > alo and bestj > blo and ..." loops: grow the match
\* to the left over elements whose junk status is `junk`
RECURSIVE extend_left(_, _, _, _, _, _)
extend_left(a, b, alo, blo, junk, best) ==
    IF /\ best[1] > alo
       /\ best[2] > blo
       /\ (b[best[2]] \in bjunk(b)) = junk
       /\ a[best[1]] = b[best[2]]
    THEN extend_left(a, b, alo, blo, junk,
                     <<best[1] - 1, best[2] - 1, best[3] + 1>>)
    ELSE best

\* the "while besti+bestsize < ahi and bestj+bestsize < bhi and ..." loops
RECURSIVE extend_right(_, _, _, _, _, _)
extend_right(a, b, ahi, bhi, junk, best) ==
    IF /\ best[1] + best[3] < ahi
       /\ best[2] + best[3] < bhi
       /\ (b[best[2] + best[3] + 1] \in bjunk(b)) = junk
       /\ a[best[1] + best[3] + 1] = b[best[2] + best[3] + 1]
    THEN extend_right(a, b, ahi, bhi, junk, <<best[1], best[2], best[3] + 1>>)
    ELSE best

\* SequenceMatcher.find_longest_match(alo, ahi, blo, bhi)
find_longest_match(a, b, alo, ahi, blo, bhi) ==
    extend_right(a, b, ahi, bhi, TRUE,
        extend_left(a, b, alo, blo, TRUE,
            extend_right(a, b, ahi, bhi, FALSE,
                extend_left(a, b, alo, blo, FALSE,
                    longest_run(a, b, alo, ahi, blo, bhi)))))

\* one turn of the queue loop of get_matching_blocks, after queue.pop()
\* took the last entry and x = <<i, j, k>> was found in it: queue and
\* matching_blocks as the turn leaves them
queue_turn(queue, matching_blocks, x) ==
    LET q == queue[Len(queue)]
        rest == SubSeq(queue, 1, Len(queue) - 1)
        i == x[1]
        j == x[2]
        k == x[3]
        left == IF q[1] < i /\ q[3] < j
                THEN <<(<<q[1], i, q[3], j>>)>> ELSE <<>>
        right == IF i + k < q[2] /\ j + k < q[4]
                 THEN <<(<<i + k, q[2], j + k, q[4]>>)>> ELSE <<>>
    IN  IF k = 0 THEN <<rest, matching_blocks>>
        ELSE <<rest \o left \o right, Append(matching_blocks, x)>>

\* the queue loop of get_matching_blocks from the state <<queue,
\* matching_blocks>>: the blocks in the order they are found
RECURSIVE found_blocks(_, _, _)
found_blocks(a, b, state) ==
    IF state[1] = <<>> THEN state[2]
    ELSE found_blocks(a, b,
             queue_turn(state[1], state[2],
                 find_longest_match(a, b,
                     state[1][Len(state[1])][1], state[1][Len(state[1])][2],
                     state[1][Len(state[1])][3], state[1][Len(state[1])][4])))

\* the state the queue loop starts from: queue = [(0, la, 0, lb)] and
\* matching_blocks = []
queue_start(a, b) == <<(<<(<<0, Len(a), 0, Len(b)>>)>>), <<>> >>

\* tuple order of Python on (i, j, k)
BlockLess(x, y) ==
    \/ x[1] < y[1]
    \/ x[1] = y[1] /\ x[2] < y[2]
    \/ x[1] = y[1] /\ x[2] = y[2] /\ x[3] < y[3]

RECURSIVE SortSet(_)
SortSet(S) ==
    IF S = {} THEN <<>>
    ELSE LET m == CHOOSE x \in S : \A y \in S \ {x} : BlockLess(x, y)
         IN  <<m>> \o SortSet(S \ {m})

\* matching_blocks.sort()
sort_blocks(blocks) == SortSet(Range(blocks))

\* the loop that collapses adjacent blocks; cur is <<i1, j1, k1>>
RECURSIVE collapse(_, _, _, _)
collapse(blocks, n, cur, out) ==
    IF n > Len(blocks)
    THEN (IF cur[3] # 0 THEN Append(out, cur) ELSE out)
    ELSE LET x == blocks[n]
         IN  IF cur[1] + cur[3] = x[1] /\ cur[2] + cur[3] = x[2]
             THEN collapse(blocks, n + 1, <<cur[1], cur[2], cur[3] + x[3]>>, out)
             ELSE collapse(blocks, n + 1, x,
                           IF cur[3] # 0 THEN Append(out, cur) ELSE out)

\* SequenceMatcher.get_matching_blocks(): the blocks sorted, adjacent ones
\* merged, and the dummy (len(a), len(b), 0) at the end
get_matching_blocks(a, b) ==
    Append(collapse(sort_blocks(found_blocks(a, b, queue_start(a, b))),
                    1, <<0, 0, 0>>, <<>>),
           <<Len(a), Len(b), 0>>)

(***************************************************************************)
(* The matched spans of a pair, lines 116-119                              *)
(***************************************************************************)

\* the literal 30 of line 118
min_length == 30

\* a mutant of kept_blocks: a block of exactly min_length characters is
\* kept too, "block.size >= 30"
kept_blocks_from_30(a, b) ==
    SelectSeq(get_matching_blocks(a, b), LAMBDA block : block[3] >= min_length)

\* a mutant of kept_blocks: no test of the size, only the dummy is dropped
kept_blocks_any_size(a, b) ==
    SelectSeq(get_matching_blocks(a, b), LAMBDA block : block[3] > 0)

\* a mutant of kept_blocks: the blocks in the order they were found
kept_blocks_as_found(a, b) ==
    SelectSeq(found_blocks(a, b, queue_start(a, b)),
              LAMBDA block : block[3] > min_length)

\* "for block in matching_blocks if block.size > 30" of line 118
kept_blocks(a, b) ==
    SelectSeq(get_matching_blocks(a, b), LAMBDA block : block[3] > min_length)

\* a[block.a:block.a + block.size] of the blocks
block_texts(a, blocks) ==
    AsTuple([n \in 1..Len(blocks) |->
                Slice(a, blocks[n][1], blocks[n][1] + blocks[n][3])])

\* matched_content of line 118: texts[i][block.a:block.a + block.size] of
\* every kept block
matched_content(a, b) == block_texts(a, kept_blocks(a, b))

\* "...{chunk.strip()}..." of the chunks that are not all white space
chunks_shown(content) ==
    LET shown == SelectSeq(content, LAMBDA chunk : strip(chunk) # <<>>)
    IN  AsTuple([n \in 1..Len(shown) |->
                    <<".", ".", ".">> \o strip(shown[n]) \o <<".", ".", ".">>])

\* matched_text of line 119
matched_text(a, b) == join(<<"\n", "\n">>, chunks_shown(matched_content(a, b)))

\* highlight_diff: HtmlDiff.make_table(text1.split(), text2.split(), ...).
\* The HTML is a function of the two word lists, which stand for it here.
highlight_diff(text1, text2) == [fromlines |-> split(text1), tolines |-> split(text2)]

(***************************************************************************)
(* compare_texts, lines 31-35: TfidfVectorizer(stop_words='english') and   *)
(* cosine_similarity.  Weights and scores are fixed-point numbers.         *)
(***************************************************************************)

\* the words of sklearn's English stop word list that the modelled pages use
ENGLISH_STOP_WORDS ==
    { <<"t", "h", "e">>, <<"a", "n", "d">>, <<"o", "f">>, <<"b", "u", "t">>,
      <<"i", "n">>, <<"i", "s">>, <<"t", "o">>, <<"f", "o", "r">>,
      <<"a", "r", "e">>, <<"s", "o">>, <<"a", "l", "l">>, <<"n", "o">>,
      <<"n", "o", "t">>, <<"w", "i", "t", "h">>, <<"t", "h", "i", "s">>,
      <<"t", "h", "a", "t">> }

\* the analyzer of TfidfVectorizer: lowercase, the tokens of
\* (?u)\b\w\w+\b (runs of two or more word characters), stop words removed
analyze(text) ==
    SelectSeq(Runs(lower(text), WordChar),
              LAMBDA tok : Len(tok) >= 2 /\ tok \notin ENGLISH_STOP_WORDS)

\* smooth idf of TfidfTransformer, ln((1 + n) / (1 + df)) + 1, in tenths,
\* for the n <= 5 documents a run can have
idf(n, df) ==
    LET tenths == << <<10>>,
                     <<14, 10>>,
                     <<17, 13, 10>>,
                     <<19, 15, 12, 10>>,
                     <<21, 17, 14, 12, 10>> >>
    IN  tenths[n][df]

\* floor of the square root
RECURSIVE isqrt(_)
isqrt(n) ==
    IF n < 2 THEN n
    ELSE LET small == 2 * isqrt(n \div 4)
         IN  IF (small + 1) * (small + 1) > n THEN small ELSE small + 1

RECURSIVE Sum(_, _)
Sum(f, S) == IF S = {} THEN 0
             ELSE LET x == CHOOSE y \in S : TRUE IN f[x] + Sum(f, S \ {x})

\* one unit of a similarity score: scores are integers in units of 1/100000
ScoreUnit == 100 * 1000

\* the tf-idf rows of the documents: weight[d][t] is tf * idf for the term
\* t of the vocabulary; the l2 normalisation of the rows is left to cosine
tfidf(texts) ==
    LET n == Len(texts)
        tokens == AsTuple([d \in 1..n |-> analyze(texts[d])])
        vocabulary == UNION {Range(tokens[d]) : d \in 1..n}
        tf(d, t) == Cardinality({k \in 1..Len(tokens[d]) : tokens[d][k] = t})
        df(t) == Cardinality({d \in 1..n : t \in Range(tokens[d])})
    IN  AsTuple([d \in 1..n |->
                    AsTable([t \in vocabulary |-> tf(d, t) * idf(n, df(t))])])

\* a mutant of cosine: the dot product is divided by the norm of the first
\* row twice, dot(x, y) / (|x| * |x|)
cosine_by_first_norm(x, y) ==
    LET dot == Sum([t \in DOMAIN x |-> x[t] * y[t]], DOMAIN x)
        xx == Sum([t \in DOMAIN x |-> x[t] * x[t]], DOMAIN x)
        yy == Sum([t \in DOMAIN y |-> y[t] * y[t]], DOMAIN y)
    IN  IF xx = 0 \/ yy = 0 THEN 0
        ELSE (ScoreUnit * dot) \div xx

\* cosine_similarity of two rows: dot(x, y) / (|x| * |y|), and 0 when a
\* row is all zero (normalize leaves a zero row as it is)
cosine(x, y) ==
    LET dot == Sum([t \in DOMAIN x |-> x[t] * y[t]], DOMAIN x)
        xx == Sum([t \in DOMAIN x |-> x[t] * x[t]], DOMAIN x)
        yy == Sum([t \in DOMAIN y |-> y[t] * y[t]], DOMAIN y)
    IN  IF xx = 0 \/ yy = 0 THEN 0
        ELSE (ScoreUnit * dot) \div isqrt(xx * yy)

\* what fit_transform raises when no document has a token that is not a
\* stop word: "empty vocabulary; perhaps the documents only contain stop
\* words"
ValueError == "ValueError"

\* compare_texts(texts): the N x N matrix, or the ValueError of
\* fit_transform
compare_texts(texts) ==
    LET weight == tfidf(texts)
        n == Len(texts)
    IN  IF \A d \in 1..n : analyze(texts[d]) = <<>> THEN ValueError
        ELSE AsTuple([i \in 1..n |->
                        AsTuple([j \in 1..n |-> cosine(weight[i], weight[j])])])

\* round(sim_score, 4) of line 124: the score in units of 1/10000
round4(score) == (score + 5) \div 10

(***************************************************************************)
(* The pages behind the URLs.  A page is given by the text nodes that      *)
(* Document(html).summary() keeps: readability and the HTML parser are     *)
(* libraries outside the script.                                           *)
(***************************************************************************)

\* "Duplicate content hurts  search rankings"
GuideNode1 ==
    <<"D", "u", "p", "l", "i", "c", "a", "t", "e", " ", "c", "o", "n", "t",
      "e", "n", "t", " ", "h", "u", "r", "t", "s", " ", " ", "s", "e", "a",
      "r", "c", "h", " ", "r", "a", "n", "k", "i", "n", "g", "s">>

\* "  and quick copied pages\nconfuse search engine crawlers "
GuideNode2 ==
    <<" ", " ", "a", "n", "d", " ", "q", "u", "i", "c", "k", " ", "c", "o",
      "p", "i", "e", "d", " ", "p", "a", "g", "e", "s", "\n", "c", "o", "n",
      "f", "u", "s", "e", " ", "s", "e", "a", "r", "c", "h", " ", "e", "n",
      "g", "i", "n", "e", " ", "c", "r", "a", "w", "l", "e", "r", "s", " ">>

\* "The Quick  Brown Fox\tJumps"
FoxNode ==
    <<"T", "h", "e", " ", "Q", "u", "i", "c", "k", " ", " ", "B", "r", "o",
      "w", "n", " ", "F", "o", "x", "\t", "J", "u", "m", "p", "s">>

\* "The AND of": stop words only
StopNode ==
    <<"T", "h", "e", " ", "A", "N", "D", " ", "o", "f">>

URLS == {"guide", "fox", "stop", "gone"}

\* what requests.get(url, timeout=10) gives: a response with its status
\* code and, for a page, the text nodes of its HTML; `raised` is the text
\* of the exception when the request or the parsing raises, else <<>>.
\* The failed fetch of the modelled pages is the status 404; a raised
\* exception gives a text of the same form, "Error: " and a message.
Web ==
    [url \in URLS |->
        CASE url = "guide" ->
               [status_code |-> 200, html |-> <<GuideNode1, GuideNode2>>, raised |-> <<>>]
          [] url = "fox" ->
               [status_code |-> 200, html |-> <<FoxNode>>, raised |-> <<>>]
          [] url = "stop" ->
               [status_code |-> 200, html |-> <<StopNode>>, raised |-> <<>>]
          [] url = "gone" ->
               [status_code |-> 404, html |-> <<>>, raised |-> <<>>]]

\* clean_text, lines 14-19: get_text(separator=' ', strip=True) strips the
\* text nodes, drops the empty ones and joins the rest with a space; the
\* result is lowercased and its runs of white space collapsed
clean_text(html) ==
    LET stripped == AsTuple([n \in 1..Len(html) |-> strip(html[n])])
        nodes == SelectSeq(stripped, LAMBDA node : node # <<>>)
        text == join(<<" ">>, nodes)
    IN  collapse_spaces(lower(text))

\* "Error: "
ErrorPrefix ==
    <<"E", "r", "r", "o", "r", ":", " ">>

\* fetch_content, lines 21-29
fetch_content(url) ==
    IF Web[url].raised # <<>>
    THEN ErrorPrefix \o Web[url].raised
    ELSE IF Web[url].status_code = 200
    THEN clean_text(Web[url].html)
    ELSE ErrorPrefix \o str(Web[url].status_code)

(***************************************************************************)
(* The script, lines 78-161.  Streamlit runs it from top to bottom on      *)
(* every interaction; only st.session_state outlives a run.                *)
(***************************************************************************)

\* the number of URLs one run takes; the script has 5 input fields
MaxUrls == 3

None == "None"

VARIABLES
    page,               \* the option of the sidebar radio, line 83
    session_state,      \* st.session_state: a function on the keys it holds
    urls,               \* urls of the last run, lines 87-96
    similarity_matrix,  \* the matrix the last run showed, line 104, or None
    message,            \* the status element the last run showed
    report,             \* the expanders the Report Viewer showed, or None
    export_df,          \* the rows of the Excel export, or None
    text_a,             \* the first text given to the overlap extraction
    text_b,             \* the second text
    extracted,          \* whether the extraction has run on them
    spans,              \* its kept blocks <<start in a, start in b, size>>
    evidence            \* its matched_text

app_vars == <<page, session_state, urls, similarity_matrix, message, report, export_df>>
pair_vars == <<text_a, text_b, extracted, spans, evidence>>
vars == <<app_vars, pair_vars>>

\* the documents of the URLs: fetch_content(url), worked out once per URL
fetched == AsTable([url \in URLS |-> fetch_content(url)])

\* matched_text and highlight_diff of the documents of two URLs, worked out
\* once per pair of URLs
matched == AsTable([p \in URLS \X URLS |-> matched_text(fetched[p[1]], fetched[p[2]])])
diffed == AsTable([p \in URLS \X URLS |-> highlight_diff(fetched[p[1]], fetched[p[2]])])

\* matched_content of the documents of two URLs and the tokens of the
\* document of a URL, likewise
content == AsTable([p \in URLS \X URLS |-> matched_content(fetched[p[1]], fetched[p[2]])])
analyzed == AsTable([url \in URLS |-> analyze(fetched[url])])

\* line 103: texts = [fetch_content(url) for url in urls]
fetch_all(us) == AsTuple([k \in 1..Len(us) |-> fetched[us[k]]])

\* line 104: compare_texts(texts) for the documents of a list of URLs,
\* worked out once per list
compared ==
    AsTable([us \in UNION {[1..n -> URLS] : n \in 2..MaxUrls} |->
                compare_texts(fetch_all(us))])

\* lines 114-127, the body of the double loop for the pair p = <<i, j>>:
\* texts[k] is the document of us[k]
record(us, matrix, p) ==
    [URL_1 |-> us[p[1]],
     URL_2 |-> us[p[2]],
     Similarity_Score |-> round4(matrix[p[1]][p[2]]),
     Highlighted_Duplicate_Phrases |-> matched[<<us[p[1]], us[p[2]]>>],
     Diff_HTML |-> diffed[<<us[p[1]], us[p[2]]>>]]

\* a mutant of pairs_of: a pair is taken only from a score of 0.8 on
pairs_from_threshold(n, matrix) ==
    Flatten([i \in 1..n |->
                SelectSeq([m \in 1..(n - i) |-> <<i, i + m>>],
                          LAMBDA p : matrix[p[1]][p[2]] >= 8 * (ScoreUnit \div 10))])

\* a mutant of pairs_of: the inner loop is "for j in range(len(urls))" and
\* skips i = j
pairs_all_j(n, matrix) ==
    Flatten([i \in 1..n |->
                SelectSeq([j \in 1..n |-> <<i, j>>], LAMBDA p : p[1] # p[2])])

\* lines 112-113: "for i in range(len(urls)): for j in range(i + 1,
\* len(urls))", the pairs in the order the loops visit them.  The loops look
\* at no score.
pairs_of(n, matrix) ==
    Flatten([i \in 1..n |-> [m \in 1..(n - i) |-> <<i, i + m>>]])

\* lines 110-127: comparison_results is set to [] and the double loop
\* appends one record per pair
pair_loop(us, matrix) ==
    LET pairs == pairs_of(Len(us), matrix)
    IN  AsTuple([k \in 1..Len(pairs) |-> record(us, matrix, pairs[k])])

\* lines 110-127 for a list of URLs whose matrix was computed, worked out
\* once per list
looped ==
    AsTable([us \in UNION {[1..n -> URLS] : n \in 2..MaxUrls} |->
                IF compared[us] = ValueError THEN <<>>
                ELSE pair_loop(us, compared[us])])

HasResults ==
    /\ "comparison_results" \in DOMAIN session_state
    /\ session_state["comparison_results"] # <<>>

Warning == "warning: Please enter at least two URLs."
Exception == "exception: ValueError"
Success == "success: Content comparison complete."
Info == "info: No comparison results available yet."

\* lines 85-129 with the "Compare Content" button pressed; entered is the
\* list of lines 87-96: the fields that are not empty, in the order of the
\* fields, or the first URLs of the sitemap
CompareContent(entered) ==
    /\ page = "Input & Analysis"
    /\ urls' = entered
    /\ page' = page
    /\ report' = None
    /\ export_df' = None
    /\ LET matrix == compared[urls']
       IN  IF Len(urls') < 2
           THEN /\ message' = Warning
                /\ similarity_matrix' = None
                /\ session_state' = session_state
           ELSE IF matrix = ValueError
           THEN \* compare_texts raises and the run ends at line 104
                /\ message' = Exception
                /\ similarity_matrix' = None
                /\ session_state' = session_state
           ELSE /\ message' = Success
                /\ similarity_matrix' = matrix
                /\ session_state' =
                       [key \in DOMAIN session_state \cup {"comparison_results"} |->
                           IF key = "comparison_results"
                           THEN looped[urls']
                           ELSE session_state[key]]
    /\ UNCHANGED pair_vars

\* lines 131-158: a run with the radio on the Report Viewer
ReportViewer ==
    /\ page' = "Report Viewer"
    /\ urls' = <<>>
    /\ similarity_matrix' = None
    /\ IF HasResults
       THEN LET results == session_state["comparison_results"]
            IN  /\ message' = "none"
                /\ report' = [k \in 1..Len(results) |->
                                [title |-> <<results[k].URL_1, results[k].URL_2,
                                             results[k].Similarity_Score>>,
                                 code |-> results[k].Highlighted_Duplicate_Phrases,
                                 html |-> results[k].Diff_HTML]]
                /\ export_df' = [k \in 1..Len(results) |->
                                   [URL_1 |-> results[k].URL_1,
                                    URL_2 |-> results[k].URL_2,
                                    Similarity_Score |-> results[k].Similarity_Score,
                                    Highlighted_Duplicate_Phrases |->
                                        results[k].Highlighted_Duplicate_Phrases]]
       ELSE /\ message' = Info
            /\ report' = None
            /\ export_df' = None
    /\ UNCHANGED <<session_state, pair_vars>>

\* lines 85-96: a run with the radio back on Input & Analysis and no
\* button pressed; the fields are drawn empty
InputAnalysis ==
    /\ page = "Report Viewer"
    /\ page' = "Input & Analysis"
    /\ urls' = <<>>
    /\ similarity_matrix' = None
    /\ message' = "none"
    /\ report' = None
    /\ export_df' = None
    /\ UNCHANGED <<session_state, pair_vars>>

Init ==
    /\ page = "Input & Analysis"
    /\ session_state = << >>
    /\ urls = <<>>
    /\ similarity_matrix = None
    /\ message = "none"
    /\ report = None
    /\ export_df = None
    /\ text_a = <<>>
    /\ text_b = <<>>
    /\ extracted = FALSE
    /\ spans = <<>>
    /\ evidence = <<>>

Next ==
    \/ \E entered \in UNION {[1..n -> URLS] : n \in 0..MaxUrls} : CompareContent(entered)
    \/ ReportViewer
    \/ InputAnalysis

Spec == Init /\ [][Next]_vars

(***************************************************************************)
(* The overlap extraction of lines 116-119 on its own, on texts made of    *)
(* up to MaxParts phrases.                                                 *)
(***************************************************************************)
MaxParts == 2

\* "duplicate content hurt rankings and"
PhraseAnd ==
    <<"d", "u", "p", "l", "i", "c", "a", "t", "e", " ", "c", "o", "n", "t",
      "e", "n", "t", " ", "h", "u", "r", "t", " ", "r", "a", "n", "k", "i",
      "n", "g", "s", " ", "a", "n", "d">>

\* "duplicate content hurt rankings but"
PhraseBut ==
    <<"d", "u", "p", "l", "i", "c", "a", "t", "e", " ", "c", "o", "n", "t",
      "e", "n", "t", " ", "h", "u", "r", "t", " ", "r", "a", "n", "k", "i",
      "n", "g", "s", " ", "b", "u", "t">>

\* "so duplicate content hurt ranking"
PhraseSo ==
    <<"s", "o", " ", "d", "u", "p", "l", "i", "c", "a", "t", "e", " ", "c",
      "o", "n", "t", "e", "n", "t", " ", "h", "u", "r", "t", " ", "r", "a",
      "n", "k", "i", "n", "g">>

Phrases == {PhraseAnd, PhraseBut, PhraseSo}

\* the texts of up to MaxParts phrases, a space between two phrases
Texts == {join(<<" ">>, parts) : parts \in UNION {[1..n -> Phrases] : n \in 0..MaxParts}}

\* lines 116-119 on text_a and text_b
Extract ==
    /\ ~extracted
    /\ extracted' = TRUE
    /\ spans' = kept_blocks(text_a, text_b)
    /\ evidence' = matched_text(text_a, text_b)
    /\ UNCHANGED <<text_a, text_b, app_vars>>

InitExtract ==
    /\ page = "Input & Analysis"
    /\ session_state = << >>
    /\ urls = <<>>
    /\ similarity_matrix = None
    /\ message = "none"
    /\ report = None
    /\ export_df = None
    /\ text_a \in Texts
    /\ text_b \in Texts
    /\ extracted = FALSE
    /\ spans = <<>>
    /\ evidence = <<>>

NextExtract == Extract

SpecExtract == InitExtract /\ [][NextExtract]_vars

(***************************************************************************)
(* Properties                                                              *)
(***************************************************************************)

\* the stored results, [] when the key is absent
Results ==
    IF "comparison_results" \in DOMAIN session_state
    THEN session_state["comparison_results"] ELSE <<>>

\* the index pairs i < j of a run with n URLs
Pairs(n) == {p \in (1..n) \X (1..n) : p[1] < p[2]}

\* the k-th of them, ascending in i and then in j
PairAt(n, k) ==
    CHOOSE p \in Pairs(n) :
        Cardinality({q \in Pairs(n) :
                        q[1] < p[1] \/ (q[1] = p[1] /\ q[2] < p[2])}) = k - 1

\* a record of the pair p of the last run is among the stored results
Recorded(p) ==
    \E k \in 1..Len(Results) :
        /\ Results[k].URL_1 = urls[p[1]]
        /\ Results[k].URL_2 = urls[p[2]]
        /\ Results[k].Similarity_Score = round4(similarity_matrix[p[1]][p[2]])

\* the threshold 0.8 of the specification, in score units
Threshold == 8 * (ScoreUnit \div 10)

\* the state a Compare press with two or more URLs leaves: every other run
\* sets urls to []
RanOnTwoOrMore == page = "Input & Analysis" /\ Len(urls) >= 2

\* the texts of the pair p of the last run are the same text
Identical(p) == fetched[urls[p[1]]] = fetched[urls[p[2]]]

\* the fetch of the URL failed: a status other than 200, or an exception
Failed(url) == Web[url].raised # <<>> \/ Web[url].status_code # 200

C2_IdenticalOneWholeSpan ==
    message = Success =>
        \A p \in Pairs(Len(urls)) :
            Identical(p) =>
                /\ similarity_matrix[p[1]][p[2]] = ScoreUnit
                /\ content[<<urls[p[1]], urls[p[2]]>>] = <<fetched[urls[p[1]]]>>

\* C2 as amended: two identical texts with a token that is no stop word
\* score 1.0; their overlap extraction returns exactly one span, the whole
\* text, when the text is longer than 30 characters and no span otherwise.
C2_IdenticalLongOneWholeSpan ==
    message = Success =>
        \A p \in Pairs(Len(urls)) :
            Identical(p) =>
                LET text == fetched[urls[p[1]]]
                IN  /\ analyzed[urls[p[1]]] # <<>> =>
                          similarity_matrix[p[1]][p[2]] = ScoreUnit
                    /\ content[<<urls[p[1]], urls[p[2]]>>] =
                          IF Len(text) > min_length THEN <<text>> ELSE <<>>

\* a run with the same long page twice
C2_Witness ==
    /\ message = Success
    /\ \E p \in Pairs(Len(urls)) :
          /\ Identical(p)
          /\ Len(fetched[urls[p[1]]]) > min_length
          /\ analyzed[urls[p[1]]] # <<>>
          /\ Len(content[<<urls[p[1]], urls[p[2]]>>]) = 1

\* C3: every span the overlap extraction keeps is a common block of the two
\* texts longer than min_length; no block of 30 characters or fewer, the
\* dummy of size 0 included, is kept.
C3_SpanMinimality ==
    extracted =>
        \A k \in 1..Len(spans) :
            /\ spans[k][3] > min_length
            /\ Slice(text_a, spans[k][1], spans[k][1] + spans[k][3])
                 = Slice(text_b, spans[k][2], spans[k][2] + spans[k][3])

\* a pair with a kept span and a matching block of exactly min_length
C3_Witness ==
    /\ extracted
    /\ spans # <<>>
    /\ \E n \in 1..Len(get_matching_blocks(text_a, text_b)) :
          get_matching_blocks(text_a, text_b)[n][3] = min_length

\* C4: the kept spans are in ascending order of their start in text_a, and
\* the evidence string stitches them in that order.
C4_SpanOrder ==
    extracted =>
        /\ \A k \in 1..(Len(spans) - 1) : spans[k][1] < spans[k + 1][1]
        /\ LET ascending == SortSet(Range(spans))
               chunks == [k \in 1..Len(ascending) |->
                             Slice(text_a, ascending[k][1],
                                   ascending[k][1] + ascending[k][3])]
           IN  evidence = join(<<"\n", "\n">>, chunks_shown(chunks))

\* a pair with two kept spans
C4_Witness == extracted /\ Len(spans) >= 2

\* C5 as stated: a run with a failed fetch is not aborted, and the failed
\* document scores 0 with every other document of the run.
C5_FailedScoresZero ==
    (RanOnTwoOrMore /\ \E k \in 1..Len(urls) : Failed(urls[k])) =>
        /\ message = Success
        /\ \A i \in 1..Len(urls) : \A j \in 1..Len(urls) :
              (i # j /\ Failed(urls[i])) => similarity_matrix[i][j] = 0

\* C6 as stated: a run of two or more documents always gets its N x N
\* matrix, also when every document is degenerate, and a document without
\* a token scores 0 with every other document.
C6_DegenerateNeverAborts ==
    RanOnTwoOrMore =>
        /\ message = Success
        /\ Len(similarity_matrix) = Len(urls)
        /\ \A i \in 1..Len(urls) : Len(similarity_matrix[i]) = Len(urls)
        /\ \A i \in 1..Len(urls) : \A j \in 1..Len(urls) :
              (i # j /\ analyzed[urls[i]] = <<>>) => similarity_matrix[i][j] = 0

\* C7 as stated: a Compare run with fewer than 2 usable documents (fetched
\* with status 200 and not empty) is aborted: it shows no matrix and
\* produces no record.
C7_TooFewUsableAborts ==
    LET usable == {k \in 1..Len(urls) :
                      ~Failed(urls[k]) /\ fetched[urls[k]] # <<>>}
    IN  (message \in {Warning, Exception, Success} /\ Cardinality(usable) < 2) =>
            /\ message # Success
            /\ similarity_matrix = None

\* C8: the records are in ascending i and then ascending j: the k-th record
\* is the record of the k-th pair i < j, so no pair is recorded twice or
\* with i = j.
C8_PairOrder ==
    message = Success =>
        /\ Len(Results) = Cardinality(Pairs(Len(urls)))
        /\ \A k \in 1..Len(Results) :
              LET p == PairAt(Len(urls), k)
              IN  /\ Results[k].URL_1 = urls[p[1]]
                  /\ Results[k].URL_2 = urls[p[2]]
                  /\ Results[k].Similarity_Score =
                        round4(similarity_matrix[p[1]][p[2]])

\* a run of three different URLs
C8_Witness ==
    /\ message = Success
    /\ Len(urls) = 3
    /\ Cardinality(Range(urls)) = 3
    /\ Len(Results) = 3

\* C9: the matrix is symmetric, and the score of a pair is the same when
\* the URLs are entered in the reverse order.
C9_Symmetry ==
    message = Success =>
        LET n == Len(urls)
            reversed == AsTuple([k \in 1..n |-> urls[n + 1 - k]])
        IN  /\ \A i \in 1..n : \A j \in 1..n :
                  similarity_matrix[i][j] = similarity_matrix[j][i]
            /\ \A p \in Pairs(n) :
                  compared[reversed][n + 1 - p[2]][n + 1 - p[1]]
                     = similarity_matrix[p[1]][p[2]]

\* a run with two different documents that share a term
C9_Witness ==
    /\ message = Success
    /\ \E p \in Pairs(Len(urls)) :
          /\ urls[p[1]] # urls[p[2]]
          /\ similarity_matrix[p[1]][p[2]] > 0
          /\ similarity_matrix[p[1]][p[2]] < ScoreUnit

\* C10 as stated: after a Compare run with two or more URLs the stored
\* results are exactly the N(N-1)/2 records of that run, and the Report
\* Viewer shows and exports the stored records, or the notice when there
\* are none.
C10_ResultsOfLatestRun ==
    /\ RanOnTwoOrMore =>
          /\ Len(Results) = Cardinality(Pairs(Len(urls)))
          /\ \A k \in 1..Len(Results) :
                /\ Results[k].URL_1 = urls[PairAt(Len(urls), k)[1]]
                /\ Results[k].URL_2 = urls[PairAt(Len(urls), k)[2]]
    /\ page = "Report Viewer" =>
          IF Results # <<>>
          THEN /\ Len(report) = Len(Results)
               /\ Len(export_df) = Len(Results)
               /\ \A k \in 1..Len(Results) :
                     /\ report[k].code = Results[k].Highlighted_Duplicate_Phrases
                     /\ report[k].html = Results[k].Diff_HTML
                     /\ export_df[k].URL_1 = Results[k].URL_1
                     /\ export_df[k].URL_2 = Results[k].URL_2
                     /\ export_df[k].Similarity_Score = Results[k].Similarity_Score
          ELSE message = Info /\ report = None /\ export_df = None
====
